---- MODULE Spec2Model ----
(***************************************************************************)
(* Model of package sud (Single Use Dialer), src/sud.go.                   *)
(*                                                                         *)
(* A SingleUseDialer holds a mutex mu and a slot conn.  DialContext locks  *)
(* mu, returns (nil, ErrNoConnReuse) when the slot is nil, and otherwise   *)
(* moves the connection out of the slot and returns it.  DialTLSContext    *)
(* forwards to DialContext.  Goroutines call the two methods on any        *)
(* dialer, with any arguments, in any interleaving.                        *)
(***************************************************************************)
EXTENDS Naturals, Sequences, FiniteSets

\* Number of goroutines that call the dialers.
NumGoroutines == 2

\* Number of calls that may be started, over all dialers.
MaxCalls == 4

Goroutines == 1..NumGoroutines

\* The SingleUseDialer instances.
Dialers == {"sudA", "sudB"}

\* The nil net.Conn and the non-nil connections that can be injected.
Nil == "nil"
Conns == {"connC", "connD"}

\* An error value: id is its identity (errors.New returns a fresh pointer, so
\* two errors with the same text are different values) and msg its message.
Err(id, msg) == [id |-> id, msg |-> msg]

\* The nil error and the sentinel of src/sud.go:41.
NilErr == Err("nil", "")
ErrNoConnReuse == Err("ErrNoConnReuse", "cannot reuse connection")

\* Argument values: a live or an already cancelled context, the network and
\* address strings used by the tests, a nil or a non-nil *tls.Config.
Contexts == {"live", "cancelled"}
Networks == {"tcp", "udp"}
Addresses == {"example.com:443", "different.host:8080"}
NilCfg == "nilcfg"
Configs == {NilCfg, "cfg"}

VARIABLES
    seed,   \* seed[d]: the conn argument NewSingleUseDialer was given for d
    conn,   \* conn[d]: the field sud.conn
    mu,     \* mu[d]: TRUE when sud.mu is locked
    pc,     \* pc[g]: where goroutine g is in its current call
    frame,  \* frame[g]: receiver, arguments, locals and results of g's call;
            \* pos is the call's place in the mutex order of its dialer and
            \* raced tells that another call was waiting for the mutex when
            \* this one acquired it
    nlock,  \* nlock[d]: how many calls have acquired d's mutex
    hist,   \* hist[d]: what the calls on d returned, in mutex order
    connState  \* connState[c]: the state of connection c itself

vars == <<seed, conn, mu, pc, frame, nlock, hist, connState>>

\* A (net.Conn, error) pair of results.
Result(c, e) == [conn |-> c, err |-> e]

NoResult == Result(Nil, NilErr)

\* The frame of a goroutine that has not called anything yet.
NoFrame ==
    [sud |-> "none", method |-> "none", ctx |-> "none", network |-> "none",
     addr |-> "none", cfg |-> "none", conn |-> Nil, pos |-> 0, raced |-> FALSE,
     ret |-> NoResult]

\* Number of calls started so far: those that returned and those in flight.
Started ==
    Cardinality({<<d, i>> \in Dialers \X (1..MaxCalls) : i <= Len(hist[d])})
    + Cardinality({g \in Goroutines : pc[g] \notin {"idle", "done"}})

----------------------------------------------------------------------------
\* Mutant: the constructor stores a typed nil pointer in the interface, so
\* that a nil argument no longer compares equal to nil.
NewSingleUseDialerTypedNil(c) == IF c = Nil THEN "typednil" ELSE c

\* Mutant: the constructor validates its argument and replaces a nil
\* connection by a default one.
NewSingleUseDialerFallback(c) == IF c = Nil THEN "connC" ELSE c

\* Mutant: the constructor forgets its argument.
NewSingleUseDialerDropsConn(c) == Nil

\* NewSingleUseDialer(conn): the value of the new dialer's conn field.
NewSingleUseDialer(c) == c

Init ==
    /\ seed \in [Dialers -> Conns \cup {Nil}]
    /\ conn = [d \in Dialers |-> NewSingleUseDialer(seed[d])]
    /\ mu = [d \in Dialers |-> FALSE]
    /\ pc = [g \in Goroutines |-> "idle"]
    /\ frame = [g \in Goroutines |-> NoFrame]
    /\ nlock = [d \in Dialers |-> 0]
    /\ hist = [d \in Dialers |-> <<>>]
    /\ connState = [c \in Conns |-> "open"]

\* Goroutine g enters sud.DialContext(ctx, network, addr) on dialer d.
CallDialContext(g, d, ctx, network, addr) ==
    /\ pc[g] \in {"idle", "done"}
    /\ Started < MaxCalls
    /\ frame' = [frame EXCEPT ![g] =
                    [sud |-> d, method |-> "DialContext", ctx |-> ctx,
                     network |-> network, addr |-> addr, cfg |-> "none",
                     conn |-> Nil, pos |-> 0, raced |-> FALSE, ret |-> NoResult]]
    /\ pc' = [pc EXCEPT ![g] = "lock"]
    /\ UNCHANGED <<connState, seed, conn, mu, nlock, hist>>

\* The arguments DialTLSContext passes on to DialContext.
ForwardedArgs(ctx, network, address, cfg) ==
    [ctx |-> ctx, network |-> network, addr |-> address]

\* Mutant: DialTLSContext returns the slot itself instead of delegating.
CallDialTLSContextOwnPath(g, d, ctx, network, address, cfg) ==
    /\ pc[g] \in {"idle", "done"}
    /\ Started < MaxCalls
    /\ ~mu[d]
    /\ LET r == IF conn[d] = Nil THEN Result(Nil, ErrNoConnReuse)
                ELSE Result(conn[d], NilErr) IN
       /\ frame' = [frame EXCEPT ![g] =
                       [sud |-> d, method |-> "DialTLSContext", ctx |-> ctx,
                        network |-> network, addr |-> address, cfg |-> cfg,
                        conn |-> conn[d], pos |-> nlock[d] + 1, raced |-> FALSE,
                        ret |-> r]]
       /\ hist' = [hist EXCEPT ![d] = Append(@, r)]
    /\ nlock' = [nlock EXCEPT ![d] = @ + 1]
    /\ pc' = [pc EXCEPT ![g] = "done"]
    /\ UNCHANGED <<connState, seed, conn, mu>>

\* Goroutine g enters d.DialTLSContext(ctx, network, address, cfg), which
\* calls d.DialContext(ctx, network, address).
CallDialTLSContext(g, d, ctx, network, address, cfg) ==
    /\ pc[g] \in {"idle", "done"}
    /\ Started < MaxCalls
    /\ LET a == ForwardedArgs(ctx, network, address, cfg) IN
       frame' = [frame EXCEPT ![g] =
                    [sud |-> d, method |-> "DialTLSContext", ctx |-> a.ctx,
                     network |-> a.network, addr |-> a.addr, cfg |-> cfg,
                     conn |-> Nil, pos |-> 0, raced |-> FALSE, ret |-> NoResult]]
    /\ pc' = [pc EXCEPT ![g] = "lock"]
    /\ UNCHANGED <<connState, seed, conn, mu, nlock, hist>>

\* Mutant: DialContext does not take the mutex.
CanLockNoMutex(d) == TRUE

\* sud.mu.Lock() can return only when the mutex is not locked.
CanLock(d) == ~mu[d]

\* Another goroutine is blocked in Lock on the dialer g is calling.
Contended(g) ==
    \E h \in Goroutines \ {g} : pc[h] = "lock" /\ frame[h].sud = frame[g].sud

\* Mutant: DialContext has a value receiver, so each call locks its own copy
\* of the mutex and the dialer's mutex is never taken.
LockOnCopy(g) ==
    /\ pc[g] = "lock"
    /\ nlock' = [nlock EXCEPT ![frame[g].sud] = @ + 1]
    /\ frame' = [frame EXCEPT ![g].pos = nlock[frame[g].sud] + 1,
                              ![g].raced = Contended(g)]
    /\ pc' = [pc EXCEPT ![g] = "check"]
    /\ UNCHANGED <<connState, seed, conn, mu, hist>>

\* sud.mu.Lock()
Lock(g) ==
    /\ pc[g] = "lock"
    /\ CanLock(frame[g].sud)
    /\ mu' = [mu EXCEPT ![frame[g].sud] = TRUE]
    /\ nlock' = [nlock EXCEPT ![frame[g].sud] = @ + 1]
    /\ frame' = [frame EXCEPT ![g].pos = nlock[frame[g].sud] + 1,
                              ![g].raced = Contended(g)]
    /\ pc' = [pc EXCEPT ![g] = "check"]
    /\ UNCHANGED <<connState, seed, conn, hist>>

\* Mutant: the nil check is missing.
ConnIsNilNever(slot, ctx, network, addr) == FALSE

\* Mutant: the dialer refuses networks other than tcp.
ConnIsNilOrNotTCP(slot, ctx, network, addr) == slot = Nil \/ network # "tcp"

\* The condition of the if statement: sud.conn == nil.
ConnIsNil(slot, ctx, network, addr) == slot = Nil

\* Mutant: a failed dial re-arms the dialer with the connection it was built with.
CheckRearm(g) ==
    /\ pc[g] = "check"
    /\ LET f == frame[g] IN
       IF conn[f.sud] = Nil
       THEN /\ frame' = [frame EXCEPT ![g].ret = Result(Nil, ErrNoConnReuse)]
            /\ conn' = [conn EXCEPT ![f.sud] = seed[f.sud]]
            /\ pc' = [pc EXCEPT ![g] = "unlock"]
       ELSE /\ frame' = frame
            /\ conn' = conn
            /\ pc' = [pc EXCEPT ![g] = "swap"]
    /\ UNCHANGED <<connState, seed, mu, nlock, hist>>

\* Mutant: the failure path builds a new error with the sentinel's text
\* instead of returning the sentinel.
CheckFreshError(g) ==
    /\ pc[g] = "check"
    /\ LET f == frame[g] IN
       IF conn[f.sud] = Nil
       THEN /\ frame' = [frame EXCEPT ![g].ret =
                           Result(Nil, Err("fresh", "cannot reuse connection"))]
            /\ pc' = [pc EXCEPT ![g] = "unlock"]
       ELSE /\ frame' = frame
            /\ pc' = [pc EXCEPT ![g] = "swap"]
    /\ UNCHANGED <<connState, seed, conn, mu, nlock, hist>>

\* Mutant: DialContext honours the context and fails when it is cancelled.
CheckHonoursCtx(g) ==
    /\ pc[g] = "check"
    /\ LET f == frame[g] IN
       IF f.ctx = "cancelled"
       THEN /\ frame' = [frame EXCEPT ![g].ret = Result(Nil, Err("context.Canceled", "context canceled"))]
            /\ pc' = [pc EXCEPT ![g] = "unlock"]
       ELSE IF conn[f.sud] = Nil
       THEN /\ frame' = [frame EXCEPT ![g].ret = Result(Nil, ErrNoConnReuse)]
            /\ pc' = [pc EXCEPT ![g] = "unlock"]
       ELSE /\ frame' = frame
            /\ pc' = [pc EXCEPT ![g] = "swap"]
    /\ UNCHANGED <<connState, seed, conn, mu, nlock, hist>>

\* if sud.conn == nil { return nil, ErrNoConnReuse }
Check(g) ==
    /\ pc[g] = "check"
    /\ LET f == frame[g] IN
       IF ConnIsNil(conn[f.sud], f.ctx, f.network, f.addr)
       THEN /\ frame' = [frame EXCEPT ![g].ret = Result(Nil, ErrNoConnReuse)]
            /\ pc' = [pc EXCEPT ![g] = "unlock"]
       ELSE /\ frame' = frame
            /\ pc' = [pc EXCEPT ![g] = "swap"]
    /\ UNCHANGED <<connState, seed, conn, mu, nlock, hist>>

\* Mutant: the connection is returned and left in the slot.
SlotAfterTakeKept(slot) == slot

\* The value the tuple assignment stores into sud.conn.
SlotAfterTake(slot) == Nil

\* Mutant: the dialer closes the connection as it hands it out.
SwapCloses(g) ==
    /\ pc[g] = "swap"
    /\ LET d == frame[g].sud IN
       /\ frame' = [frame EXCEPT ![g].conn = conn[d],
                                 ![g].ret = Result(conn[d], NilErr)]
       /\ conn' = [conn EXCEPT ![d] = Nil]
       /\ connState' = [connState EXCEPT ![conn[d]] = "closed"]
    /\ pc' = [pc EXCEPT ![g] = "unlock"]
    /\ UNCHANGED <<seed, mu, nlock, hist>>

\* Mutant: the slot is a package variable shared by all the dialers.
SwapSharedSlot(g) ==
    /\ pc[g] = "swap"
    /\ LET d == frame[g].sud IN
       /\ frame' = [frame EXCEPT ![g].conn = conn[d],
                                 ![g].ret = Result(conn[d], NilErr)]
       /\ conn' = [e \in Dialers |-> Nil]
    /\ pc' = [pc EXCEPT ![g] = "unlock"]
    /\ UNCHANGED <<connState, seed, mu, nlock, hist>>

\* var conn net.Conn; conn, sud.conn = sud.conn, nil; return conn, nil
Swap(g) ==
    /\ pc[g] = "swap"
    /\ LET d == frame[g].sud IN
       /\ frame' = [frame EXCEPT ![g].conn = conn[d],
                                 ![g].ret = Result(conn[d], NilErr)]
       /\ conn' = [conn EXCEPT ![d] = SlotAfterTake(conn[d])]
    /\ pc' = [pc EXCEPT ![g] = "unlock"]
    /\ UNCHANGED <<connState, seed, mu, nlock, hist>>

\* Mutant: DialTLSContext needs a TLS configuration and fails without one.
TLSResultNeedsCfg(cfg, inner) ==
    IF cfg = NilCfg /\ inner.err = NilErr
    THEN Result(Nil, Err("tls", "tls: no config")) ELSE inner

\* What DialTLSContext returns given what its call of DialContext returned.
TLSResult(cfg, inner) == inner

\* What the caller receives from the method it called.
Returned(f) ==
    IF f.method = "DialTLSContext" THEN TLSResult(f.cfg, f.ret) ELSE f.ret

\* Mutant: the mutex is unlocked by hand before the successful return only,
\* and the early return leaves it locked.
UnlockOnlyOnSuccess(g) ==
    /\ pc[g] = "unlock"
    /\ LET d == frame[g].sud
           r == Returned(frame[g]) IN
       /\ mu' = [mu EXCEPT ![d] = (r.err # NilErr)]
       /\ frame' = [frame EXCEPT ![g].ret = r]
       /\ hist' = [hist EXCEPT ![d] = Append(@, r)]
    /\ pc' = [pc EXCEPT ![g] = "done"]
    /\ UNCHANGED <<connState, seed, conn, nlock>>

\* defer sud.mu.Unlock(), and the return to the caller.
Unlock(g) ==
    /\ pc[g] = "unlock"
    /\ LET d == frame[g].sud
           r == Returned(frame[g]) IN
       /\ mu' = [mu EXCEPT ![d] = FALSE]
       /\ frame' = [frame EXCEPT ![g].ret = r]
       /\ hist' = [hist EXCEPT ![d] = Append(@, r)]
    /\ pc' = [pc EXCEPT ![g] = "done"]
    /\ UNCHANGED <<connState, seed, conn, nlock>>

\* The arguments every call of TestSingleUseDialer_ConcurrentAccess passes.
Background == "live"
TestNetwork == "tcp"
TestAddr == "example.com:443"

\* Any number of goroutines race on the dialers through both methods, with
\* the arguments of the concurrency test and a nil TLS configuration.
Next ==
    \/ \E g \in Goroutines, d \in Dialers :
          CallDialContext(g, d, Background, TestNetwork, TestAddr)
    \/ \E g \in Goroutines, d \in Dialers :
          CallDialTLSContext(g, d, Background, TestNetwork, TestAddr, NilCfg)
    \/ \E g \in Goroutines : Lock(g)
    \/ \E g \in Goroutines : Check(g)
    \/ \E g \in Goroutines : Swap(g)
    \/ \E g \in Goroutines : Unlock(g)

Spec == Init /\ [][Next]_vars

\* The scheduler runs every goroutine that can take a step, and sync.Mutex
\* gives the mutex to a goroutine that keeps waiting for it (a waiter that
\* fails to acquire it for long switches the mutex to starvation mode, where
\* Unlock hands it to the waiter at the front of the queue).
Fairness ==
    \A g \in Goroutines :
        /\ SF_vars(Lock(g))
        /\ WF_vars(Check(g))
        /\ WF_vars(Swap(g))
        /\ WF_vars(Unlock(g))

\* Termination does not depend on which connection was injected: the fair
\* behaviours start with one loaded dialer and one empty dialer.
FairInit == Init /\ seed["sudA"] = "connC" /\ seed["sudB"] = Nil

FairSpec == FairInit /\ [][Next]_vars /\ Fairness

\* Two runs side by side: goroutine 1 issues a sequence of calls on sudA and
\* goroutine 2 a sequence of calls on sudB, each call with any arguments.
Runs == {1, 2}
RunDialer(g) == IF g = 1 THEN "sudA" ELSE "sudB"

NextArgs ==
    \/ \E g \in Runs, ctx \in Contexts, network \in Networks, addr \in Addresses :
          CallDialContext(g, RunDialer(g), ctx, network, addr)
    \/ \E g \in Runs, ctx \in Contexts, network \in Networks,
          address \in Addresses, cfg \in Configs :
          CallDialTLSContext(g, RunDialer(g), ctx, network, address, cfg)
    \/ \E g \in Runs : Lock(g)
    \/ \E g \in Runs : Check(g)
    \/ \E g \in Runs : Swap(g)
    \/ \E g \in Runs : Unlock(g)

SpecArgs == Init /\ [][NextArgs]_vars

----------------------------------------------------------------------------
\* Vocabulary of the properties.

\* The two results the package documents: the injected connection, once, and
\* the sentinel afterwards.
Winner(d) == Result(seed[d], NilErr)
Loser == Result(Nil, ErrNoConnReuse)

\* The goroutines whose latest call, on d, has returned.
DoneOn(d) == {g \in Goroutines : pc[g] = "done" /\ frame[g].sud = d}

\* The goroutines inside a call on d.
InFlightOn(d) ==
    {g \in Goroutines : pc[g] \in {"lock", "check", "swap", "unlock"} /\ frame[g].sud = d}

\* The places of hist[d] that hold result r.
Places(d, r) == {i \in 1..Len(hist[d]) : hist[d][i] = r}

\* C1: when the only calls made on a dialer built with a non-nil connection
\* C are N >= 1 DialContext calls by N goroutines, exactly one of them
\* returned (C, nil), exactly N-1 returned (nil, ErrNoConnReuse), and none
\* returned another connection, however the calls interleaved.
C1_ExactlyOneOfN ==
    \A d \in Dialers :
        LET S == DoneOn(d) IN
        ( /\ seed[d] # Nil
          /\ S # {}
          /\ InFlightOn(d) = {}
          /\ Len(hist[d]) = Cardinality(S)
          /\ \A g \in S : frame[g].method = "DialContext" )
        => /\ Cardinality({g \in S : frame[g].ret = Winner(d)}) = 1
           /\ Cardinality({g \in S : frame[g].ret = Loser}) = Cardinality(S) - 1
           /\ \A g \in S : frame[g].ret.conn \in {Nil, seed[d]}

\* C1 witness: every goroutine made one DialContext call on the same loaded
\* dialer, and the one that got the connection acquired the mutex while
\* another was waiting for it.
C1_Witness ==
    \E d \in Dialers :
        /\ seed[d] # Nil
        /\ NumGoroutines >= 2
        /\ DoneOn(d) = Goroutines
        /\ Len(hist[d]) = NumGoroutines
        /\ \A g \in Goroutines : frame[g].method = "DialContext"
        /\ \E g \in Goroutines : frame[g].raced /\ frame[g].ret = Winner(d)
        /\ \E g \in Goroutines : frame[g].ret = Loser

\* C2: the first DialContext call on a dialer built with a non-nil
\* connection C returns exactly (C, nil).
C2_FirstDialSucceeds ==
    \A g \in Goroutines :
        ( /\ pc[g] = "done"
          /\ frame[g].method = "DialContext"
          /\ frame[g].pos = 1
          /\ seed[frame[g].sud] # Nil )
        => frame[g].ret = Result(seed[frame[g].sud], NilErr)

\* C2 witness: a first DialContext call has returned the injected connection.
C2_Witness ==
    \E g \in Goroutines :
        /\ pc[g] = "done"
        /\ frame[g].method = "DialContext"
        /\ frame[g].pos = 1
        /\ frame[g].ret.conn # Nil
        /\ frame[g].ret.conn = seed[frame[g].sud]
        /\ frame[g].ret.err = NilErr

\* C3: once a call on a dialer has returned without error, every call that
\* comes after it on that dialer returns (nil, ErrNoConnReuse).
C3_LaterDialsFail ==
    \A d \in Dialers :
        \A i, j \in 1..Len(hist[d]) :
            (i < j /\ hist[d][i].err = NilErr) => hist[d][j] = Loser

\* C3 witness: a success followed by two failed retries on the same dialer.
C3_Witness ==
    \E d \in Dialers :
        /\ Len(hist[d]) >= 3
        /\ hist[d][1].err = NilErr
        /\ hist[d][1].conn # Nil
        /\ hist[d][2] = Loser
        /\ hist[d][3] = Loser

\* C4: no step of DialContext or DialTLSContext takes a dialer whose slot is
\* nil to a state where the slot is not nil.
C4_SlotOneWay ==
    [][\A d \in Dialers : conn[d] = Nil => conn'[d] = Nil]_vars

\* C4 witness: a dialer that was loaded is spent, and calls of both methods
\* have run on it since.
C4_Witness ==
    \E d \in Dialers :
        /\ seed[d] # Nil
        /\ conn[d] = Nil
        /\ \E g, h \in DoneOn(d) :
              /\ frame[g].method = "DialContext" /\ frame[g].pos >= 2
              /\ frame[h].method = "DialTLSContext" /\ frame[h].pos >= 2

\* 1 when the slot of d holds the connection d was built with, else 0.
InSlot(d) == IF conn[d] = seed[d] THEN 1 ELSE 0

\* Number of calls on d that hold the connection d was built with: the calls
\* that returned it and the call that has moved it out of the slot and has
\* yet to return.
Holders(d) ==
    Cardinality(Places(d, Winner(d)))
    + Cardinality({g \in Goroutines : /\ pc[g] = "unlock"
                                      /\ frame[g].sud = d
                                      /\ frame[g].conn = seed[d]})

\* C5: in every state the connection a dialer was built with is either in
\* the slot or with exactly one call, never both, never with two calls and
\* never nowhere.
C5_ConnAccountedOnce ==
    \A d \in Dialers :
        seed[d] # Nil => /\ InSlot(d) + Holders(d) = 1
                         /\ conn[d] \in {Nil, seed[d]}

\* C5 witness: the connection has left the slot, one call returned it and a
\* second call has come back empty-handed.
C5_Witness ==
    \E d \in Dialers :
        /\ seed[d] # Nil
        /\ conn[d] = Nil
        /\ Len(hist[d]) >= 2
        /\ Cardinality(Places(d, Winner(d))) = 1
        /\ Cardinality(Places(d, Loser)) >= 1

\* Calls f and k are at the same place of two runs on dialers built with the
\* same connection.
SamePlace(f, k) ==
    /\ f.sud # k.sud
    /\ seed[f.sud] = seed[k.sud]
    /\ f.pos = k.pos

\* C6: a DialTLSContext call returns what a DialContext call at the same
\* place of a run on a dialer built with the same connection returns,
\* whatever the TLS configuration, nil included; the first DialTLSContext on
\* a loaded dialer returns the injected connection and any DialTLSContext
\* after a first call returns (nil, ErrNoConnReuse).
C6_TLSSameAsPlain ==
    /\ \A g, h \in Goroutines :
          ( /\ pc[g] = "done" /\ frame[g].method = "DialTLSContext"
            /\ pc[h] = "done" /\ frame[h].method = "DialContext"
            /\ SamePlace(frame[g], frame[h]) )
          => frame[g].ret = frame[h].ret
    /\ \A g \in Goroutines :
          (pc[g] = "done" /\ frame[g].method = "DialTLSContext")
          => /\ (frame[g].pos = 1 /\ seed[frame[g].sud] # Nil)
                   => frame[g].ret = Winner(frame[g].sud)
             /\ frame[g].pos >= 2 => frame[g].ret = Loser

\* C6 witness: a DialTLSContext call with a nil configuration and a
\* DialContext call are both first on dialers built with the same
\* connection, and both returned it.
C6_Witness ==
    \E g, h \in Goroutines :
        /\ pc[g] = "done" /\ frame[g].method = "DialTLSContext"
        /\ frame[g].cfg = NilCfg
        /\ pc[h] = "done" /\ frame[h].method = "DialContext"
        /\ SamePlace(frame[g], frame[h])
        /\ frame[g].pos = 1
        /\ frame[g].ret.conn # Nil
        /\ frame[g].ret = frame[h].ret

\* C7: over all the calls made on a dialer built with a non-nil connection,
\* DialContext and DialTLSContext together, as soon as one call has
\* returned exactly one has returned the connection and all the others have
\* returned (nil, ErrNoConnReuse).
C7_OneWinnerAcrossMethods ==
    \A d \in Dialers :
        (seed[d] # Nil /\ Len(hist[d]) >= 1)
        => /\ Cardinality(Places(d, Winner(d))) = 1
           /\ Cardinality(Places(d, Loser)) = Len(hist[d]) - 1

\* C7 witness: a DialContext call and a DialTLSContext call raced on one
\* loaded dialer; one got the connection and the other the sentinel.
C7_Witness ==
    \E d \in Dialers : \E g, h \in DoneOn(d) :
        /\ seed[d] # Nil
        /\ frame[g].method = "DialContext"
        /\ frame[h].method = "DialTLSContext"
        /\ frame[g].raced \/ frame[h].raced
        /\ {frame[g].pos, frame[h].pos} = {1, 2}
        /\ {frame[g].ret, frame[h].ret} = {Winner(d), Loser}

\* C8: two calls of the same method at the same place of two runs on dialers
\* built with the same connection return the same connection and the same
\* error, whatever network, address and TLS configuration each was given.
C8_ArgumentsIgnored ==
    \A g, h \in Goroutines :
        ( /\ pc[g] = "done" /\ pc[h] = "done"
          /\ frame[g].method = frame[h].method
          /\ frame[g].ctx = frame[h].ctx
          /\ SamePlace(frame[g], frame[h]) )
        => frame[g].ret = frame[h].ret

\* C8 witness: two DialTLSContext calls that differ in network, address and
\* configuration were first in their runs and returned the same connection.
C8_Witness ==
    \E g, h \in Goroutines :
        /\ pc[g] = "done" /\ pc[h] = "done"
        /\ frame[g].method = "DialTLSContext"
        /\ frame[h].method = "DialTLSContext"
        /\ frame[g].ctx = frame[h].ctx
        /\ SamePlace(frame[g], frame[h])
        /\ frame[g].network # frame[h].network
        /\ frame[g].addr # frame[h].addr
        /\ frame[g].cfg # frame[h].cfg
        /\ frame[g].ret.conn # Nil
        /\ frame[g].ret = frame[h].ret

\* C9: a call given a cancelled context returns what the same call given a
\* live context returns at the same place of a run on a dialer built with
\* the same connection, and its error is nil or ErrNoConnReuse, never a
\* cancellation error.
C9_ContextIgnored ==
    \A g \in Goroutines :
        (pc[g] = "done" /\ frame[g].ctx = "cancelled")
        => /\ frame[g].ret.err \in {NilErr, ErrNoConnReuse}
           /\ \A h \in Goroutines :
                 ( /\ pc[h] = "done" /\ frame[h].ctx = "live"
                   /\ frame[h].method = frame[g].method
                   /\ frame[h].network = frame[g].network
                   /\ frame[h].addr = frame[g].addr
                   /\ frame[h].cfg = frame[g].cfg
                   /\ SamePlace(frame[g], frame[h]) )
                 => frame[g].ret = frame[h].ret

\* C9 witness: a call with a cancelled context got the connection, as did
\* the same call with a live context in the other run; and the second call
\* of a run with a cancelled context got the sentinel.
C9_Witness ==
    \E g, h \in Goroutines :
        /\ pc[g] = "done" /\ frame[g].ctx = "cancelled"
        /\ pc[h] = "done" /\ frame[h].ctx = "live"
        /\ frame[h].method = frame[g].method
        /\ frame[h].network = frame[g].network
        /\ frame[h].addr = frame[g].addr
        /\ SamePlace(frame[g], frame[h])
        /\ frame[g].pos = 1
        /\ frame[g].ret.conn # Nil
        /\ frame[g].ret = frame[h].ret

\* C10: on a dialer built with a nil connection every call, the first one
\* and concurrent ones included, returns (nil, ErrNoConnReuse), and the slot
\* stays nil.
C10_NilSeedAlwaysFails ==
    \A d \in Dialers :
        seed[d] = Nil
        => /\ conn[d] = Nil
           /\ \A i \in 1..Len(hist[d]) : hist[d][i] = Loser
           /\ \A g \in Goroutines :
                 (pc[g] \in {"unlock", "done"} /\ frame[g].sud = d)
                 => frame[g].ret = Loser

\* C10 witness: two calls raced on a dialer built with nil and both, the
\* first included, returned the sentinel.
C10_Witness ==
    \E d \in Dialers : \E g, h \in DoneOn(d) :
        /\ seed[d] = Nil
        /\ g # h
        /\ frame[g].pos = 1 /\ frame[g].raced
        /\ frame[g].ret = Loser
        /\ frame[h].ret = Loser
        /\ Len(hist[d]) >= 2

\* The results of the calls that have returned or are about to: those
\* recorded in hist and those held by goroutines past their return statement.
Results ==
    {hist[d][i] : <<d, i>> \in {x \in Dialers \X (1..MaxCalls) : x[2] <= Len(hist[x[1]])}}
    \cup {frame[g].ret : g \in {h \in Goroutines : pc[h] \in {"unlock", "done"}}}

\* C11: every call returns either a non-nil connection with a nil error or
\* a nil connection with ErrNoConnReuse: never another error, never a
\* connection with an error, never nil with nil.
C11_TwoResultShapes ==
    \A r \in Results :
        \/ r.conn # Nil /\ r.err = NilErr
        \/ r.conn = Nil /\ r.err = ErrNoConnReuse

\* C11 witness: both shapes have been returned, by calls of both methods,
\* one of them on a dialer built with nil.
C11_Witness ==
    /\ \E g \in Goroutines :
          /\ pc[g] = "done" /\ frame[g].method = "DialTLSContext"
          /\ frame[g].ret.conn # Nil /\ frame[g].ret.err = NilErr
    /\ \E g \in Goroutines :
          /\ pc[g] = "done" /\ frame[g].method = "DialContext"
          /\ seed[frame[g].sud] = Nil
          /\ frame[g].ret = Loser

\* C12: under fair scheduling every call that has been entered returns, on
\* the success path and on the failure path alike, by DialContext and by
\* DialTLSContext, and a locked mutex is unlocked again.
C12_EveryCallReturns ==
    /\ \A g \in Goroutines :
          (pc[g] \in {"lock", "check", "swap", "unlock"}) ~> (pc[g] = "done")
    /\ \A d \in Dialers : mu[d] ~> ~mu[d]

\* C12 witness: a DialTLSContext call and another call contended for one
\* mutex, one returned the connection and one the sentinel, and the mutex
\* is free again.
C12_Witness ==
    \E d \in Dialers : \E g, h \in DoneOn(d) :
        /\ frame[g].method = "DialTLSContext"
        /\ frame[g].raced \/ frame[h].raced
        /\ frame[g].ret.err # frame[h].ret.err
        /\ InFlightOn(d) = {}
        /\ ~mu[d]

\* Number of error layers a caller may wrap around a returned error.
MaxWrap == 2

\* The errors intermediate layers wrap with (fmt.Errorf with %w).
WrapLayers == {Err("layer1", "dial failed"), Err("layer2", "request failed")}

\* An error with its chain of wrapped errors, outermost first: e wrapped by
\* the layers of w.
Wrapped(w, e) == w \o <<e>>

\* The stacks of at most MaxWrap wrapping layers.
Wrappings == UNION {[1..n -> WrapLayers] : n \in 0..MaxWrap}

\* errors.Is(err, target): walk the chain by Unwrap and compare each error
\* with the target by identity.
RECURSIVE ErrorsIs(_, _)
ErrorsIs(chain, target) ==
    IF chain = <<>> THEN FALSE
    ELSE IF Head(chain).id = target.id THEN TRUE
    ELSE ErrorsIs(Tail(chain), target)

\* The calls that have returned an error.
Losers == {g \in Goroutines : pc[g] = "done" /\ frame[g].ret.err # NilErr}

\* C13: the error of a failed DialContext or DialTLSContext call is
\* ErrNoConnReuse for errors.Is, as returned and under any stack of up to
\* MaxWrap wrapping layers, and its message is "cannot reuse connection".
C13_SentinelIdentity ==
    \A g \in Losers :
        /\ \A w \in Wrappings :
              ErrorsIs(Wrapped(w, frame[g].ret.err), ErrNoConnReuse)
        /\ frame[g].ret.err.msg = "cannot reuse connection"

\* C13 witness: a DialContext call and a DialTLSContext call have failed,
\* and the error of one, wrapped twice, is still found by errors.Is while
\* the wrapping layers alone are not.
C13_Witness ==
    \E g, h \in Losers :
        /\ frame[g].method = "DialContext"
        /\ frame[h].method = "DialTLSContext"
        /\ \E w \in Wrappings :
              /\ Len(w) = 2
              /\ ErrorsIs(Wrapped(w, frame[h].ret.err), ErrNoConnReuse)
              /\ ~ErrorsIs(w, ErrNoConnReuse)

\* The dialer d has handed its connection to a call.
HandedOut(d) ==
    \/ \E i \in 1..Len(hist[d]) : hist[d][i].conn # Nil
    \/ \E g \in Goroutines :
          pc[g] = "unlock" /\ frame[g].sud = d /\ frame[g].ret.conn # Nil

\* C14: no step of the dialer changes the state of a connection, and once
\* the connection is handed out the slot is nil: the dialer keeps no
\* reference to it.
C14_ConnUntouched ==
    [][ /\ connState' = connState
        /\ \A d \in Dialers : HandedOut(d)' => conn'[d] = Nil ]_vars

\* C14 witness: a connection has been returned to a caller, it is still
\* open, the slot is nil and a later call has run on the dialer.
C14_Witness ==
    \E d \in Dialers :
        /\ seed[d] # Nil
        /\ Len(hist[d]) >= 2
        /\ hist[d][1].conn = seed[d]
        /\ connState[seed[d]] = "open"
        /\ conn[d] = Nil

\* The slot after n calls made one after the other on a dialer whose slot
\* holds slot: each call empties an occupied slot and leaves an empty one.
RECURSIVE SlotAfterCalls(_, _)
SlotAfterCalls(slot, n) ==
    IF n = 0 THEN slot
    ELSE SlotAfterCalls(IF slot = Nil THEN Nil ELSE SlotAfterTake(slot), n - 1)

\* What the n-th of the calls made one after the other on a dialer built
\* with connection c returns.
SequentialResult(c, n) ==
    LET slot == SlotAfterCalls(NewSingleUseDialer(c), n - 1) IN
    IF slot = Nil THEN Loser ELSE Result(slot, NilErr)

\* C15: a call returns what the call at its place returns when the same
\* calls run one after the other in the order they acquired the mutex; on
\* a loaded dialer the first to acquire the mutex gets the connection and
\* every later one gets ErrNoConnReuse.
C15_MutexOrderDecides ==
    /\ \A d \in Dialers : \A i \in 1..Len(hist[d]) :
          hist[d][i] = SequentialResult(seed[d], i)
    /\ \A g \in Goroutines :
          pc[g] \in {"unlock", "done"}
          => LET d == frame[g].sud IN
             /\ frame[g].ret = SequentialResult(seed[d], frame[g].pos)
             /\ (frame[g].pos = 1 /\ seed[d] # Nil) => frame[g].ret = Winner(d)
             /\ frame[g].pos > 1 => frame[g].ret = Loser

\* C15 witness: two calls contended for the mutex of a loaded dialer; the
\* one that acquired it first, with the other waiting, got the connection
\* and the other got the sentinel.
C15_Witness ==
    \E d \in Dialers : \E g, h \in DoneOn(d) :
        /\ seed[d] # Nil
        /\ frame[g].pos = 1 /\ frame[g].raced
        /\ frame[g].ret = Winner(d)
        /\ frame[h].pos = 2
        /\ frame[h].ret = Loser
        /\ hist[d] = <<Winner(d), Loser>>

\* The goroutines between Lock and Unlock of d: those that may read or
\* write the slot.
InCritical(d) ==
    {g \in Goroutines : pc[g] \in {"check", "swap", "unlock"} /\ frame[g].sud = d}

\* The calls in progress or just returned that found the slot of d occupied.
SawOccupied(d) ==
    {g \in Goroutines :
        /\ frame[g].sud = d
        /\ \/ pc[g] = "swap"
           \/ pc[g] \in {"unlock", "done"} /\ frame[g].conn # Nil}

\* C16: at most one goroutine is between Lock and Unlock of a dialer, the
\* mutex is locked exactly while one is, so the slot is checked and cleared
\* only under the mutex, and no two calls both find the slot occupied.
C16_SlotUnderMutex ==
    \A d \in Dialers :
        /\ Cardinality(InCritical(d)) <= 1
        /\ mu[d] <=> InCritical(d) # {}
        /\ Cardinality(SawOccupied(d)) <= 1

\* C16 witness: one goroutine holds the mutex of a loaded dialer and is
\* about to clear the slot while another waits in Lock.
C16_Witness ==
    \E d \in Dialers : \E g, h \in Goroutines :
        /\ seed[d] # Nil
        /\ frame[g].sud = d /\ pc[g] = "swap"
        /\ frame[h].sud = d /\ pc[h] = "lock"
        /\ mu[d]
        /\ conn[d] # Nil

\* C17: a step by which a call takes the failure branch or returns an error
\* finds the slot nil and leaves every slot as it was; the only change any
\* step makes to a slot is the move from the injected connection to nil by
\* the call that returns that connection.
C17_FailureChangesNothing ==
    [][ /\ \A g \in Goroutines :
              ( /\ pc'[g] # pc[g]
                /\ pc'[g] \in {"unlock", "done"}
                /\ frame'[g].ret.err # NilErr )
              => /\ conn' = conn
                 /\ conn[frame[g].sud] = Nil
        /\ \A d \in Dialers :
              conn'[d] # conn[d]
              => /\ conn[d] = seed[d]
                 /\ conn'[d] = Nil
                 /\ \E g \in Goroutines :
                       /\ frame[g].sud = d
                       /\ pc[g] = "swap" /\ pc'[g] = "unlock"
                       /\ frame'[g].ret = Winner(d) ]_vars

\* C17 witness: after the one successful take, a DialTLSContext call that
\* found the dialer uncontended has failed and the slot is nil.
C17_Witness ==
    \E d \in Dialers : \E g \in DoneOn(d) :
        /\ seed[d] # Nil
        /\ frame[g].method = "DialTLSContext"
        /\ ~frame[g].raced
        /\ frame[g].pos >= 2
        /\ frame[g].ret = Loser
        /\ Cardinality(Places(d, Winner(d))) = 1
        /\ conn[d] = Nil

\* The state Loaded of a dialer: its slot is occupied.
Loaded(d) == conn[d] # Nil

\* C18: a dialer on which no call has acquired the mutex yet is as
\* NewSingleUseDialer(c) built it: the slot holds exactly c, nil included,
\* the mutex is unlocked, nothing has been returned, the connection is
\* untouched, and the dialer is Loaded exactly when c is not nil.
C18_ConstructionStoresHandle ==
    \A d \in Dialers :
        nlock[d] = 0
        => /\ conn[d] = seed[d]
           /\ ~mu[d]
           /\ hist[d] = <<>>
           /\ Loaded(d) <=> seed[d] # Nil
           /\ seed[d] # Nil => connState[seed[d]] = "open"

\* C18 witness: one dialer was built with a connection and the other with
\* nil; a call is waiting in Lock on the first, calls have run on the
\* second, and the first is still Loaded with its connection.
C18_Witness ==
    \E d, e \in Dialers :
        /\ nlock[d] = 0 /\ seed[d] # Nil /\ Loaded(d)
        /\ \E g \in Goroutines : pc[g] = "lock" /\ frame[g].sud = d
        /\ seed[e] = Nil /\ ~Loaded(e) /\ Len(hist[e]) >= 1

\* Every connection d has returned is the one d was built with, and d has
\* returned it once if it has returned anything and was built loaded.
OwnConnOnce(d) ==
    /\ \A i \in 1..Len(hist[d]) : hist[d][i].conn \in {Nil, seed[d]}
    /\ (seed[d] # Nil /\ Len(hist[d]) >= 1)
          => Cardinality({i \in 1..Len(hist[d]) : hist[d][i].conn = seed[d]}) = 1

\* C19: a step of a call on one dialer leaves the slot, the mutex and the
\* results of every other dialer unchanged, and each dialer returns only
\* the connection it was built with, once, however the calls on the
\* dialers interleave.
C19_DialersIndependent ==
    [][ /\ \A g \in Goroutines :
              pc'[g] # pc[g]
              => \A e \in Dialers \ {frame'[g].sud} :
                    /\ conn'[e] = conn[e]
                    /\ mu'[e] = mu[e]
                    /\ nlock'[e] = nlock[e]
                    /\ hist'[e] = hist[e]
        /\ \A d \in Dialers : OwnConnOnce(d)' ]_vars

\* C19 witness: two dialers built with different connections are each
\* inside a call at the same time, each call holding its own dialer's
\* connection and its own dialer's mutex.
C19_Witness ==
    \E g, h \in Goroutines :
        /\ pc[g] = "unlock" /\ pc[h] = "unlock"
        /\ frame[g].sud # frame[h].sud
        /\ seed[frame[g].sud] # seed[frame[h].sud]
        /\ frame[g].conn # Nil /\ frame[g].conn = seed[frame[g].sud]
        /\ frame[h].conn # Nil /\ frame[h].conn = seed[frame[h].sud]
        /\ mu[frame[g].sud] /\ mu[frame[h].sud]

====
